---- MODULE Spec2Model ----
(***************************************************************************)
(* Model of cloud_vm_collector.py: the paginated Azure retail-price fetch  *)
(* (fetch_azure_vm_pricing), the ordered fallback fetch of the AWS         *)
(* instance catalogue (fetch_aws_instances) and the CPU vendor classifier  *)
(* (_extract_cpu_vendor) that both share.                                  *)
(*                                                                         *)
(* Python values are modelled as records [t, chars, elems, keys, d]:       *)
(*   t = "str"   a string, chars its characters                            *)
(*   t = "None"  None                                                      *)
(*   t = "nan"   the float NaN pandas puts in a missing cell               *)
(*   t = "int"   a number (a JSON value that is neither text nor object)   *)
(*   t = "dict"  a JSON object: keys in order, d the key -> value map      *)
(*   t = "list"  a JSON array, elems its elements                          *)
(* Text is a sequence of one-character strings.                            *)
(***************************************************************************)
EXTENDS Integers, Sequences, FiniteSets, TLC

VARIABLES
    pc,          \* where the call is: "azure_loop", "azure_returned", "aws_loop", "aws_returned",
                 \* "classify", "classified"; in a run of main also "azure_retry",
                 \* "coremark_created", "saved_xlsx", "saved_csv"
    limit,       \* fetch_azure_vm_pricing: the limit argument
    next_page,   \* fetch_azure_vm_pricing: the cursor (NULL = None)
    all_items,   \* fetch_azure_vm_pricing: the accumulated records
    url_idx,     \* fetch_aws_instances: index in urls of the next URL of the for loop
    aws_df,      \* fetch_aws_instances: the returned DataFrame
    trace,       \* history: every session.get (with the outcome it had) and every time.sleep, in order
    text,        \* _extract_cpu_vendor: the argument
    vendor       \* _extract_cpu_vendor: the value returned

vars == <<pc, limit, next_page, all_items, url_idx, aws_df, trace, text, vendor>>

------------------------------------------------------------------------------
(* Bounds of the model *)

MaxLimit == 2        \* limit ranges over 0..MaxLimit
MaxItems == 3        \* the pages of one run carry at most this many items in all, each a different one
NumCursors == 2      \* cursors are 1..NumCursors; cursor 1 is base_url
MaxTimeouts == 2     \* at most this many timeouts in one run
MaxRecords == 2      \* a fallback response carries at most this many records
MaxWords == 4        \* a text given to the classifier is made of at most this many words

------------------------------------------------------------------------------
(* Python values *)

Value(t, chars, elems, keys, d) ==
    [t |-> t, chars |-> chars, elems |-> elems, keys |-> keys, d |-> d]

StrV(s) == Value("str", s, <<>>, <<>>, <<>>)
NoneV == Value("None", <<>>, <<>>, <<>>, <<>>)
NaNV == Value("nan", <<>>, <<>>, <<>>, <<>>)
IntV == Value("int", <<>>, <<>>, <<>>, <<>>)
ListV(xs) == Value("list", <<>>, xs, <<>>, <<>>)
\* The dict with the keys `keys`, in that order, and the values `vals`
DictV(keys, vals) ==
    Value("dict", <<>>, <<>>, keys,
          [k \in {keys[n] : n \in 1..Len(keys)} |-> vals[CHOOSE n \in 1..Len(keys) : keys[n] = k]])

\* dict.get(key, default)
Get(dict, key, default) == IF key \in DOMAIN dict.d THEN dict.d[key] ELSE default

\* str(x)
Str(v) ==
    CASE v.t = "str" -> v.chars
      [] v.t = "None" -> <<"N", "o", "n", "e">>
      [] v.t = "nan" -> <<"n", "a", "n">>
      [] v.t = "int" -> <<"5">>
      [] OTHER -> <<"{", "}">>

Uppers == <<"A", "B", "C", "D", "E", "F", "G", "H", "I", "J", "K", "L", "M",
            "N", "O", "P", "Q", "R", "S", "T", "U", "V", "W", "X", "Y", "Z">>
Lowers == <<"a", "b", "c", "d", "e", "f", "g", "h", "i", "j", "k", "l", "m",
            "n", "o", "p", "q", "r", "s", "t", "u", "v", "w", "x", "y", "z">>

\* The lower-case letter of each upper-case letter
LowerOf ==
    [c \in {Uppers[i] : i \in 1..Len(Uppers)} |-> Lowers[CHOOSE i \in 1..Len(Uppers) : Uppers[i] = c]]

LowerChar(c) == IF c \in DOMAIN LowerOf THEN LowerOf[c] ELSE c

\* str.lower()
Lower(s) == [i \in 1..Len(s) |-> LowerChar(s[i])]

\* pat in text
Contains(txt, pat) ==
    \E i \in 1..(Len(txt) - Len(pat) + 1) : SubSeq(txt, i, i + Len(pat) - 1) = pat

\* text.startswith(prefix)
StartsWith(txt, prefix) ==
    /\ Len(txt) >= Len(prefix)
    /\ SubSeq(txt, 1, Len(prefix)) = prefix

------------------------------------------------------------------------------
(* _extract_cpu_vendor *)

AMD == StrV(<<"A", "M", "D">>)
Intel == StrV(<<"I", "n", "t", "e", "l">>)
ARM == StrV(<<"A", "R", "M">>)
Unknown == StrV(<<"U", "n", "k", "n", "o", "w", "n">>)

\* Mutant of _extract_cpu_vendor: Intel is tested before AMD
_extract_cpu_vendor_intel_first(v) ==
    LET lowered == Lower(Str(v)) IN
    IF Contains(lowered, <<"i", "n", "t", "e", "l">>) THEN Intel
    ELSE IF Contains(lowered, <<"a", "m", "d">>) THEN AMD
    ELSE IF Contains(lowered, <<"a", "r", "m">>) \/ Contains(lowered, <<"a", "m", "p", "e", "r", "e">>)
         THEN ARM
    ELSE Unknown

_extract_cpu_vendor(v) ==
    LET lowered == Lower(Str(v)) IN
    IF Contains(lowered, <<"a", "m", "d">>) THEN AMD
    ELSE IF Contains(lowered, <<"i", "n", "t", "e", "l">>) THEN Intel
    ELSE IF Contains(lowered, <<"a", "r", "m">>) \/ Contains(lowered, <<"a", "m", "p", "e", "r", "e">>)
         THEN ARM
    ELSE Unknown

------------------------------------------------------------------------------
(* More Python values: truthiness, URLs *)

\* bool(v), as `while next_page`, `if sku` and `if not instances` use it
Truthy(v) ==
    CASE v.t = "str" -> Len(v.chars) > 0
      [] v.t = "list" -> Len(v.elems) > 0
      [] v.t = "dict" -> Len(v.keys) > 0
      [] v.t = "None" -> FALSE
      [] OTHER -> TRUE

Digits == <<"1", "2", "3", "4", "5", "6", "7", "8", "9">>

\* The URL of cursor n; cursor 1 is base_url
Url(n) == StrV(<<"u", Digits[n]>>)

base_url == Url(1)

CursorOf(url) == CHOOSE n \in 1..NumCursors : Url(n) = url

------------------------------------------------------------------------------
(* fetch_azure_vm_pricing: filtering and projection of one page *)

\* Mutant of series_filter: the X series is let through as well
series_filter_plus_X == <<"P", "T", "B", "D", "H", "F", "X">>

series_filter == <<"P", "T", "B", "D", "H", "F">>

\* any(sku.startswith(prefix) for prefix in series_filter)
AnyPrefix(sku) == \E i \in 1..Len(series_filter) : StartsWith(sku, <<series_filter[i]>>)

\* Mutant of Series: the first character only
SeriesFirstChar(sku) == IF Len(sku) > 1 THEN SubSeq(sku, 1, 1) ELSE sku

\* sku[:2] if len(sku) > 1 else sku
Series(sku) == IF Len(sku) > 1 THEN SubSeq(sku, 1, 2) ELSE sku

\* The record appended to filtered_items for an accepted item
Project(item, sku) ==
    [VMName |-> sku,
     ProductName |-> Get(item, "productName", NoneV),
     Location |-> Get(item, "armRegionName", NoneV),
     UnitPrice |-> Get(item, "unitPrice", NoneV),
     Currency |-> Get(item, "currencyCode", NoneV),
     MeterRegion |-> Get(item, "meterRegion", NoneV),
     CPUVendor |-> _extract_cpu_vendor(Get(item, "productName", StrV(<<>>))),
     Series |-> StrV(Series(sku.chars)),
     ServiceFamily |-> Get(item, "serviceFamily", NoneV),
     Type |-> Get(item, "type", NoneV),
     ArmSKU |-> sku]

\* What the body of `for item in items` does with one item:
\* "raise" (item.get or sku.startswith raises), "accept" or "skip"
ItemOutcome(item) ==
    IF item.t # "dict" THEN "raise"
    ELSE LET sku == Get(item, "armSkuName", StrV(<<>>)) IN
         IF ~Truthy(sku) THEN "skip"
         ELSE IF sku.t # "str" THEN "raise"
         ELSE IF AnyPrefix(sku.chars) THEN "accept"
         ELSE "skip"

\* The `for item in items` loop from item i on. `all` is all_items, which the
\* loop reads in its break test and never changes.
RECURSIVE FilterItems(_, _, _, _, _)
FilterItems(items, i, filtered, all, lim) ==
    IF i > Len(items) THEN [raised |-> FALSE, filtered |-> filtered]
    ELSE IF Len(all) >= lim THEN [raised |-> FALSE, filtered |-> filtered]
    ELSE LET o == ItemOutcome(items[i]) IN
         IF o = "raise" THEN [raised |-> TRUE, filtered |-> filtered]
         ELSE IF o = "accept"
              THEN FilterItems(items, i + 1,
                               Append(filtered, Project(items[i], Get(items[i], "armSkuName", StrV(<<>>)))),
                               all, lim)
         ELSE FilterItems(items, i + 1, filtered, all, lim)

\* Mutant of Extend: the records of the page are put in front
ExtendInFront(all, filtered) == filtered \o all

\* all_items.extend(filtered_items)
Extend(all, filtered) == all \o filtered

\* Lines 61-83 on a parsed body: data.get("Items", []) and the item loop
ProcessPage(data, all, lim) ==
    IF data.t # "dict" THEN [raised |-> TRUE, filtered |-> <<>>]
    ELSE LET items == Get(data, "Items", ListV(<<>>)) IN
         IF items.t # "list" THEN [raised |-> TRUE, filtered |-> <<>>]
         ELSE FilterItems(items.elems, 1, <<>>, all, lim)

------------------------------------------------------------------------------
(* The pricing endpoint: what a GET of a cursor can answer *)

ItemD2s == DictV(<<"armSkuName", "productName">>, <<StrV(<<"D", "2", "s">>), StrV(<<"A", "M", "D">>)>>)
ItemX9 == DictV(<<"armSkuName", "productName">>, <<StrV(<<"X", "9">>), StrV(<<"I", "n", "t", "e", "l">>)>>)
ItemP == DictV(<<"armSkuName">>, <<StrV(<<"P">>)>>)
ItemNullSku == DictV(<<"armSkuName", "productName">>, <<NoneV, NoneV>>)
ItemNotDict == IntV

AzureItemPool == {ItemD2s, ItemX9, ItemP, ItemNullSku, ItemNotDict}

\* The sequences of at most n elements of S
RECURSIVE SeqsUpTo(_, _)
SeqsUpTo(S, n) ==
    IF n = 0 THEN {<<>>}
    ELSE LET shorter == SeqsUpTo(S, n - 1) IN
         shorter \cup {Append(q, x) : q \in {r \in shorter : Len(r) = n - 1}, x \in S}

\* Those without a repeated element
DistinctSeqsUpTo(S, n) ==
    {q \in SeqsUpTo(S, n) : \A i, j \in 1..Len(q) : q[i] = q[j] => i = j}

\* Parsed bodies the endpoint may send for cursor c when the items `left`
\* of the pool were not sent yet. A next link points to a later cursor, so
\* that the chain of cursors is finite.
AzureBodies(c, left) ==
    LET room == MaxItems - Cardinality(AzureItemPool \ left)
        lists == IF room > 0 THEN DistinctSeqsUpTo(left, room) ELSE {<<>>}
    IN  {DictV(<<"Items", "NextPageLink">>, <<ListV(its), Url(n)>>) :
            its \in lists, n \in (c + 1)..NumCursors}
        \cup {DictV(<<"Items">>, <<ListV(its)>>) : its \in lists}
        \cup {DictV(<<"Items">>, <<NoneV>>), DictV(<<"NextPageLink">>, <<StrV(<<>>)>>), ListV(<<>>)}

FetchErrors == {"HTTPError", "ConnectionError", "JSONDecodeError"}

GetEv(url, kind, data) == [op |-> "get", url |-> url, kind |-> kind, data |-> data]
SleepEv == [op |-> "sleep", url |-> NoneV, kind |-> "", data |-> NoneV]

NumTimeouts == Cardinality({i \in 1..Len(trace) : trace[i].kind = "Timeout"})

\* The items of the body of a response (none when it has no item list)
ItemsOf(data) ==
    IF data.t = "dict" /\ Get(data, "Items", NoneV).t = "list"
    THEN Get(data, "Items", NoneV).elems
    ELSE <<>>

\* The items the endpoint sent in this run
ItemsSent ==
    UNION {{ItemsOf(trace[i].data)[k] : k \in 1..Len(ItemsOf(trace[i].data))} : i \in 1..Len(trace)}

\* AzureBodies, tabulated
AzureBodiesTable == [c \in 1..NumCursors, left \in SUBSET AzureItemPool |-> AzureBodies(c, left)]

\* What the endpoint may answer to a GET of the current cursor
AzureBodiesNow == AzureBodiesTable[CursorOf(next_page), AzureItemPool \ ItemsSent]

------------------------------------------------------------------------------
(* fetch_azure_vm_pricing: the while loop, one action per outcome of an iteration *)

\* Mutant of LoopCond: the limit is not tested
LoopCondCursorOnly == Truthy(next_page)

\* while next_page and len(all_items) < limit
LoopCond == Truthy(next_page) /\ Len(all_items) < limit

\* Mutant of AzureTimeout: the polite delay is taken before the retry
AzureTimeoutSleeps ==
    /\ pc = "azure_loop"
    /\ LoopCond
    /\ NumTimeouts < MaxTimeouts
    /\ trace' = trace \o <<GetEv(next_page, "Timeout", NoneV), SleepEv>>
    /\ UNCHANGED <<pc, limit, next_page, all_items, url_idx, aws_df, text, vendor>>

\* Mutant of AzureTimeout: a timeout ends the loop as the other errors do
AzureTimeoutBreaks ==
    /\ pc = "azure_loop"
    /\ LoopCond
    /\ NumTimeouts < MaxTimeouts
    /\ trace' = Append(trace, GetEv(next_page, "Timeout", NoneV))
    /\ pc' = "azure_returned"
    /\ UNCHANGED <<limit, next_page, all_items, url_idx, aws_df, text, vendor>>

\* session.get raises requests.exceptions.Timeout: continue
AzureTimeout ==
    /\ pc = "azure_loop"
    /\ LoopCond
    /\ NumTimeouts < MaxTimeouts
    /\ trace' = Append(trace, GetEv(next_page, "Timeout", NoneV))
    /\ UNCHANGED <<pc, limit, next_page, all_items, url_idx, aws_df, text, vendor>>

\* session.get, raise_for_status or response.json raises another exception: break
AzureFetchError ==
    /\ pc = "azure_loop"
    /\ LoopCond
    /\ \E kind \in FetchErrors :
         trace' = Append(trace, GetEv(next_page, kind, NoneV))
    /\ pc' = "azure_returned"
    /\ UNCHANGED <<limit, next_page, all_items, url_idx, aws_df, text, vendor>>

\* Mutant of AzurePageRaises: the items accepted before the error are kept
AzurePageRaisesKeepsItems ==
    /\ pc = "azure_loop"
    /\ LoopCond
    /\ \E data \in AzureBodiesNow :
         /\ ProcessPage(data, all_items, limit).raised
         /\ all_items' = Extend(all_items, ProcessPage(data, all_items, limit).filtered)
         /\ trace' = Append(trace, GetEv(next_page, "ok", data))
    /\ pc' = "azure_returned"
    /\ UNCHANGED <<limit, next_page, url_idx, aws_df, text, vendor>>

\* The body parses, and handling it raises (lines 63-83): break
AzurePageRaises ==
    /\ pc = "azure_loop"
    /\ LoopCond
    /\ \E data \in AzureBodiesNow :
         /\ ProcessPage(data, all_items, limit).raised
         /\ trace' = Append(trace, GetEv(next_page, "ok", data))
    /\ pc' = "azure_returned"
    /\ UNCHANGED <<limit, next_page, all_items, url_idx, aws_df, text, vendor>>

\* Mutant of AzurePageOk: the loop is left after the first page handled to the end
AzurePageOkStopsEarly ==
    /\ pc = "azure_loop"
    /\ LoopCond
    /\ \E data \in AzureBodiesNow :
         LET r == ProcessPage(data, all_items, limit) IN
         /\ ~r.raised
         /\ all_items' = Extend(all_items, r.filtered)
         /\ next_page' = Get(data, "NextPageLink", NoneV)
         /\ trace' = Append(trace, GetEv(next_page, "ok", data))
    /\ pc' = "azure_returned"
    /\ UNCHANGED <<limit, url_idx, aws_df, text, vendor>>

\* Mutant of AzurePageOk: the polite delay is taken after every page
AzurePageOkAlwaysSleeps ==
    /\ pc = "azure_loop"
    /\ LoopCond
    /\ \E data \in AzureBodiesNow :
         LET r == ProcessPage(data, all_items, limit)
             items2 == Extend(all_items, r.filtered)
             next2 == Get(data, "NextPageLink", NoneV)
             stop == ~Truthy(next2) \/ Len(items2) >= limit
         IN  /\ ~r.raised
             /\ all_items' = items2
             /\ next_page' = next2
             /\ pc' = IF stop THEN "azure_returned" ELSE "azure_loop"
             /\ trace' = trace \o <<GetEv(next_page, "ok", data), SleepEv>>
    /\ UNCHANGED <<limit, url_idx, aws_df, text, vendor>>

\* The page is handled to the end (lines 59-93)
AzurePageOk ==
    /\ pc = "azure_loop"
    /\ LoopCond
    /\ \E data \in AzureBodiesNow :
         LET r == ProcessPage(data, all_items, limit)
             items2 == Extend(all_items, r.filtered)
             next2 == Get(data, "NextPageLink", NoneV)
             stop == ~Truthy(next2) \/ Len(items2) >= limit
         IN  /\ ~r.raised
             /\ all_items' = items2
             /\ next_page' = next2
             /\ pc' = IF stop THEN "azure_returned" ELSE "azure_loop"
             /\ trace' = IF stop
                         THEN Append(trace, GetEv(next_page, "ok", data))
                         ELSE trace \o <<GetEv(next_page, "ok", data), SleepEv>>
    /\ UNCHANGED <<limit, url_idx, aws_df, text, vendor>>

\* The loop condition is false when the loop is entered: return
AzureReturn ==
    /\ pc = "azure_loop"
    /\ ~LoopCond
    /\ pc' = "azure_returned"
    /\ UNCHANGED <<limit, next_page, all_items, url_idx, aws_df, trace, text, vendor>>

------------------------------------------------------------------------------
(* fetch_aws_instances: handling of one response *)

urls == <<StrV(<<"e", "c", "2">>), StrV(<<"r", "a", "w">>)>>

\* A DataFrame: its column names in order, and one row (column -> cell) per record
Frame(columns, rows) == [columns |-> columns, rows |-> rows]

\* pd.DataFrame()
EmptyFrame == Frame(<<>>, <<>>)

HasColumn(df, name) == \E i \in 1..Len(df.columns) : df.columns[i] = name

\* The keys of the records, each once, in the order of their first appearance
RECURSIVE AddKeys(_, _, _)
AddKeys(columns, keys, i) ==
    IF i > Len(keys) THEN columns
    ELSE IF \E j \in 1..Len(columns) : columns[j] = keys[i]
         THEN AddKeys(columns, keys, i + 1)
         ELSE AddKeys(Append(columns, keys[i]), keys, i + 1)

RECURSIVE ColumnsOf(_, _, _)
ColumnsOf(records, i, columns) ==
    IF i > Len(records) THEN columns
    ELSE ColumnsOf(records, i + 1, AddKeys(columns, records[i].keys, 1))

\* pd.DataFrame(instances) for a list of JSON objects: a cell a record lacks is NaN
MakeDataFrame(records) ==
    LET columns == ColumnsOf(records, 1, <<>>)
        names == {columns[i] : i \in 1..Len(columns)}
    IN  Frame(columns,
              [r \in 1..Len(records) |-> [c \in names |-> Get(records[r], c, NaNV)]])

\* df[name] = values: replaces the column, or adds it as the last one
SetColumn(df, name, values) ==
    LET columns == IF HasColumn(df, name) THEN df.columns ELSE Append(df.columns, name)
        names == {columns[i] : i \in 1..Len(columns)}
    IN  Frame(columns,
              [r \in 1..Len(df.rows) |->
                  [c \in names |-> IF c = name THEN values[r] ELSE df.rows[r][c]]])

\* Mutant of AddCpuVendor: a "CPU Vendor" column the records brought is kept
AddCpuVendorKeepsOwn(df) ==
    IF HasColumn(df, "CPU Vendor") THEN df
    ELSE IF HasColumn(df, "processor")
    THEN SetColumn(df, "CPU Vendor",
                   [r \in 1..Len(df.rows) |-> _extract_cpu_vendor(df.rows[r]["processor"])])
    ELSE IF HasColumn(df, "Processor")
    THEN SetColumn(df, "CPU Vendor",
                   [r \in 1..Len(df.rows) |-> _extract_cpu_vendor(df.rows[r]["Processor"])])
    ELSE SetColumn(df, "CPU Vendor", [r \in 1..Len(df.rows) |-> Unknown])

\* Lines 137-142
AddCpuVendor(df) ==
    IF HasColumn(df, "processor")
    THEN SetColumn(df, "CPU Vendor",
                   [r \in 1..Len(df.rows) |-> _extract_cpu_vendor(df.rows[r]["processor"])])
    ELSE IF HasColumn(df, "Processor")
    THEN SetColumn(df, "CPU Vendor",
                   [r \in 1..Len(df.rows) |-> _extract_cpu_vendor(df.rows[r]["Processor"])])
    ELSE SetColumn(df, "CPU Vendor", [r \in 1..Len(df.rows) |-> Unknown])

\* Mutant of Values: the values are listed last key first
ValuesReversed(data) ==
    ListV([i \in 1..Len(data.keys) |-> data.d[data.keys[Len(data.keys) + 1 - i]]])

\* list(data.values())
Values(data) == ListV([i \in 1..Len(data.keys) |-> data.d[data.keys[i]]])

\* Lines 127-130
Instances(data) == IF data.t = "dict" THEN Values(data) ELSE data

\* Mutant of HandleBody: an empty collection is not skipped
HandleBodyKeepsEmpty(data) ==
    LET instances == Instances(data) IN
    IF instances.t # "list" THEN [do |-> "continue", df |-> EmptyFrame]
    ELSE [do |-> "return", df |-> AddCpuVendor(MakeDataFrame(instances.elems))]

\* Lines 125-145 on a parsed body: "continue" (the body is empty, or
\* pd.DataFrame raises on a body that is no collection) or "return" with df
HandleBody(data) ==
    LET instances == Instances(data) IN
    IF ~Truthy(instances) THEN [do |-> "continue", df |-> EmptyFrame]
    ELSE IF instances.t # "list" THEN [do |-> "continue", df |-> EmptyFrame]
    ELSE [do |-> "return", df |-> AddCpuVendor(MakeDataFrame(instances.elems))]

------------------------------------------------------------------------------
(* The instance catalogue and its mirror: what a GET of a URL can answer *)

RecAmd == DictV(<<"name", "processor">>, <<StrV(<<"m", "5", "a">>), StrV(<<"A", "M", "D">>)>>)
RecIntel == DictV(<<"name", "Processor">>, <<StrV(<<"c", "5">>), StrV(<<"I", "n", "t", "e", "l">>)>>)
RecBoth == DictV(<<"processor", "Processor">>, <<StrV(<<"a", "r", "m">>), StrV(<<"A", "M", "D">>)>>)
RecPlain == DictV(<<"name">>, <<StrV(<<"t", "2">>)>>)
RecNull == DictV(<<"processor">>, <<NoneV>>)
RecOwnVendor == DictV(<<"name", "CPU Vendor">>, <<StrV(<<"z", "1">>), StrV(<<"V", "I", "A">>)>>)

AwsRecordPool == {RecAmd, RecIntel, RecBoth, RecPlain, RecNull, RecOwnVendor}

AwsRecordLists == SeqsUpTo(AwsRecordPool, MaxRecords)

\* The keyed object {"a": r1, "b": r2, ...}
Keyed(records) == DictV(SubSeq(Lowers, 1, Len(records)), records)

\* Parsed bodies: an array of records, a keyed object of records, or no collection
AwsBodies ==
    {ListV(rs) : rs \in AwsRecordLists}
    \cup {Keyed(rs) : rs \in AwsRecordLists}
    \cup {IntV, NoneV}

AwsErrors == {"HTTPError", "ConnectionError", "Timeout", "JSONDecodeError"}

------------------------------------------------------------------------------
(* fetch_aws_instances: the for loop over urls *)

\* Mutant of AwsFetchError: the first error ends the for loop
AwsFetchErrorGivesUp ==
    /\ pc = "aws_loop"
    /\ url_idx <= Len(urls)
    /\ \E kind \in AwsErrors :
         trace' = Append(trace, GetEv(urls[url_idx], kind, NoneV))
    /\ url_idx' = Len(urls) + 1
    /\ UNCHANGED <<pc, limit, next_page, all_items, aws_df, text, vendor>>

\* session.get, raise_for_status or response.json raises: continue
AwsFetchError ==
    /\ pc = "aws_loop"
    /\ url_idx <= Len(urls)
    /\ \E kind \in AwsErrors :
         trace' = Append(trace, GetEv(urls[url_idx], kind, NoneV))
    /\ url_idx' = url_idx + 1
    /\ UNCHANGED <<pc, limit, next_page, all_items, aws_df, text, vendor>>

\* The body parses and gives no DataFrame: continue
AwsNoData ==
    /\ pc = "aws_loop"
    /\ url_idx <= Len(urls)
    /\ \E data \in AwsBodies :
         /\ HandleBody(data).do = "continue"
         /\ trace' = Append(trace, GetEv(urls[url_idx], "ok", data))
    /\ url_idx' = url_idx + 1
    /\ UNCHANGED <<pc, limit, next_page, all_items, aws_df, text, vendor>>

\* The body gives a DataFrame: return df
AwsReturnFrame ==
    /\ pc = "aws_loop"
    /\ url_idx <= Len(urls)
    /\ \E data \in AwsBodies :
         /\ HandleBody(data).do = "return"
         /\ aws_df' = HandleBody(data).df
         /\ trace' = Append(trace, GetEv(urls[url_idx], "ok", data))
    /\ pc' = "aws_returned"
    /\ UNCHANGED <<limit, next_page, all_items, url_idx, text, vendor>>

\* The for loop is over: return pd.DataFrame()
AwsExhausted ==
    /\ pc = "aws_loop"
    /\ url_idx > Len(urls)
    /\ aws_df' = EmptyFrame
    /\ pc' = "aws_returned"
    /\ UNCHANGED <<limit, next_page, all_items, url_idx, trace, text, vendor>>

------------------------------------------------------------------------------
(* A run is one call of either function *)

Init ==
    /\ pc \in {"azure_loop", "aws_loop"}
    /\ limit \in IF pc = "azure_loop" THEN 0..MaxLimit ELSE {0}
    /\ next_page = base_url
    /\ all_items = <<>>
    /\ url_idx = 1
    /\ aws_df = EmptyFrame
    /\ trace = <<>>
    /\ text = NoneV
    /\ vendor = NoneV

Next ==
    \/ AzureTimeout
    \/ AzureFetchError
    \/ AzurePageRaises
    \/ AzurePageOk
    \/ AzureReturn
    \/ AwsFetchError
    \/ AwsNoData
    \/ AwsReturnFrame
    \/ AwsExhausted

Spec == Init /\ [][Next]_vars

\* A request of the pricing endpoint gets an answer that is no timeout
AzureAnswer == AzureFetchError \/ AzurePageRaises \/ AzurePageOk

\* Spec with the scheduling of one thread that runs on, and with the
\* assumption that no cursor's request times out forever. The history
\* holds at most MaxTimeouts timeouts; a timeout past them leaves every
\* variable as it is, so that timing out forever is stuttering forever,
\* which the fairness of AzureAnswer rules out.
FairSpec ==
    /\ Spec
    /\ WF_vars(AzureAnswer)
    /\ WF_vars(AzureReturn)

------------------------------------------------------------------------------
(* A call of _extract_cpu_vendor on its own *)

\* Words and fragments of words, in several letter cases
Words ==
    {<<"A", "M", "D">>, <<"a", "M", "d">>, <<"I", "n", "t", "e", "l">>, <<"I", "N", "T", "E", "L">>,
     <<"a", "r", "m">>, <<"A", "m", "p", "e", "r", "e">>, <<"X", "e", "o", "n">>, <<"A", "R">>, <<"m">>}

RECURSIVE Concat(_, _)
Concat(ws, i) == IF i > Len(ws) THEN <<>> ELSE ws[i] \o Concat(ws, i + 1)

\* The arguments: the texts made of different words, and values that are no text
ClassifierInputs ==
    {StrV(Concat(ws, 1)) : ws \in DistinctSeqsUpTo(Words, MaxWords)} \cup {NoneV, NaNV, IntV}

InitClassify ==
    /\ pc = "classify"
    /\ text \in ClassifierInputs
    /\ vendor = NoneV
    /\ limit = 0
    /\ next_page = base_url
    /\ all_items = <<>>
    /\ url_idx = 1
    /\ aws_df = EmptyFrame
    /\ trace = <<>>

Classify ==
    /\ pc = "classify"
    /\ vendor' = _extract_cpu_vendor(text)
    /\ pc' = "classified"
    /\ UNCHANGED <<limit, next_page, all_items, url_idx, aws_df, trace, text>>

NextClassify == Classify

SpecClassify == InitClassify /\ [][NextClassify]_vars

------------------------------------------------------------------------------
(* A run of main: the two fetchers, the static dataset, the export *)

\* fetch_azure_vm_pricing(limit=2000, session=session)
MainLimit == 2000

MainInit ==
    /\ pc = "azure_loop"
    /\ limit = MainLimit
    /\ next_page = base_url
    /\ all_items = <<>>
    /\ url_idx = 1
    /\ aws_df = EmptyFrame
    /\ trace = <<>>
    /\ text = NoneV
    /\ vendor = NoneV

\* session.get raises Timeout (lines 59, 95-96). The history holds the first
\* MaxTimeouts timeouts of the paginated fetch only.
MainAzureTimeout ==
    /\ pc = "azure_loop"
    /\ LoopCond
    /\ trace' = IF NumTimeouts < MaxTimeouts
                THEN Append(trace, GetEv(next_page, "Timeout", NoneV))
                ELSE trace
    /\ pc' = "azure_retry"
    /\ UNCHANGED <<limit, next_page, all_items, url_idx, aws_df, text, vendor>>

\* continue (line 97): back to the while condition with the same cursor
MainAzureRetry ==
    /\ pc = "azure_retry"
    /\ pc' = "azure_loop"
    /\ UNCHANGED <<limit, next_page, all_items, url_idx, aws_df, trace, text, vendor>>

\* Line 188: azure_df is kept, fetch_aws_instances is called; the history
\* starts again with the requests of the fallback fetch
MainCallAws ==
    /\ pc = "azure_returned"
    /\ pc' = "aws_loop"
    /\ url_idx' = 1
    /\ trace' = <<>>
    /\ UNCHANGED <<limit, next_page, all_items, aws_df, text, vendor>>

\* Line 189: create_sample_coremark_data(), a table of five fixed rows
MainCoreMark ==
    /\ pc = "aws_returned"
    /\ pc' = "coremark_created"
    /\ trace' = <<>>
    /\ UNCHANGED <<limit, next_page, all_items, url_idx, aws_df, text, vendor>>

\* Lines 192-217: the workbook is written, or writing it raises and the
\* CSV files are written instead
MainExport ==
    /\ pc = "coremark_created"
    /\ pc' \in {"saved_xlsx", "saved_csv"}
    /\ UNCHANGED <<limit, next_page, all_items, url_idx, aws_df, trace, text, vendor>>

MainNext ==
    \/ MainAzureTimeout
    \/ MainAzureRetry
    \/ AzureFetchError
    \/ AzurePageRaises
    \/ AzurePageOk
    \/ MainCallAws
    \/ AwsFetchError
    \/ AwsNoData
    \/ AwsReturnFrame
    \/ AwsExhausted
    \/ MainCoreMark
    \/ MainExport

\* The one thread of main runs on as long as it has a step to take; what a
\* request is answered is left to the servers
MainSpec == MainInit /\ [][MainNext]_vars /\ WF_vars(MainNext)

------------------------------------------------------------------------------
(* What the history says about a run of fetch_azure_vm_pricing *)

InAzure == pc \in {"azure_loop", "azure_returned"}

IsGet(i) == trace[i].op = "get"

\* The identifier of an item (the empty text when it carries none)
SkuOf(item) ==
    IF item.t = "dict" /\ "armSkuName" \in DOMAIN item.d THEN item.d["armSkuName"] ELSE StrV(<<>>)

\* The identifier is a non-empty text that starts with an allowed prefix
ValidId(sku) ==
    /\ sku.t = "str"
    /\ Len(sku.chars) > 0
    /\ sku.chars[1] \in {"P", "T", "B", "D", "H", "F"}

\* An item the loop cannot handle: no JSON object, or an identifier that is
\* neither text nor null
BadItem(item) == item.t # "dict" \/ SkuOf(item).t \notin {"str", "None"}

\* The response is a body whose handling raises
PageFails(ev) ==
    /\ ev.kind = "ok"
    /\ \/ ev.data.t # "dict"
       \/ Get(ev.data, "Items", ListV(<<>>)).t # "list"
       \/ \E k \in 1..Len(ItemsOf(ev.data)) : BadItem(ItemsOf(ev.data)[k])

\* The response is a body that is handled to the end
PageDone(ev) == ev.kind = "ok" /\ ~PageFails(ev)

\* The request fails with an error that is no timeout
FailedGet(ev) == ev.kind \in FetchErrors \/ PageFails(ev)

\* The records of the items of a page that have a valid identifier, in source order
Accepted(ev) ==
    LET good == SelectSeq(ItemsOf(ev.data), LAMBDA it : ValidId(SkuOf(it)))
    IN  [k \in 1..Len(good) |-> Project(good[k], SkuOf(good[k]))]

\* The records of the pages handled to the end among the first n events, in order
RECURSIVE RecordsOfPages(_)
RecordsOfPages(n) ==
    IF n = 0 THEN <<>>
    ELSE RecordsOfPages(n - 1)
         \o (IF IsGet(n) /\ PageDone(trace[n]) THEN Accepted(trace[n]) ELSE <<>>)

------------------------------------------------------------------------------
(* C1: the paginated fetch returns at most `limit` records, and within a     *)
(* page accepts no item once the running total has reached `limit`.          *)
C1_AtMostLimit == InAzure => Len(all_items) <= limit

(* C2: a request that fails with a non-timeout error (HTTP or network error, *)
(* malformed body, error while iterating the items) is the last request of   *)
(* the run, the fetch returns, and the result is exactly the records of the  *)
(* pages completed before it, without any record of the failed page.         *)
C2_ErrorReturnsCompletedPages ==
    InAzure =>
        \A i \in 1..Len(trace) :
            (IsGet(i) /\ FailedGet(trace[i])) =>
                /\ i = Len(trace)
                /\ pc = "azure_returned"
                /\ all_items = RecordsOfPages(i - 1)

\* A page fails after one of its items was accepted, with records of an earlier page kept
C2_Witness ==
    /\ pc = "azure_returned"
    /\ Len(trace) > 0
    /\ PageFails(trace[Len(trace)])
    /\ Len(ItemsOf(trace[Len(trace)].data)) > 1
    /\ ValidId(SkuOf(ItemsOf(trace[Len(trace)].data)[1]))
    /\ Len(all_items) > 0

(* C3: after a request that times out the cursor and the accumulated records *)
(* are unchanged, no delay is inserted and the very next request goes to the *)
(* same cursor; the loop goes on after any number of consecutive timeouts.   *)
C3_TimeoutRetriesSameCursor ==
    InAzure =>
        \A i \in 1..Len(trace) :
            (IsGet(i) /\ trace[i].kind = "Timeout") =>
                IF i < Len(trace)
                THEN /\ IsGet(i + 1)
                     /\ trace[i + 1].url = trace[i].url
                ELSE /\ pc = "azure_loop"
                     /\ next_page = trace[i].url
                     /\ Truthy(next_page)
                     /\ all_items = RecordsOfPages(i)
                     /\ Len(all_items) < limit

\* Two timeouts in a row on a later page, with records already accumulated
C3_Witness ==
    /\ InAzure
    /\ \E i \in 1..Len(trace) :
         /\ i + 2 <= Len(trace)
         /\ trace[i].kind = "Timeout"
         /\ trace[i + 1].kind = "Timeout"
         /\ trace[i + 2].kind = "ok"
         /\ trace[i].url # base_url
         /\ Len(RecordsOfPages(i)) > 0

------------------------------------------------------------------------------
(* The run over the same page contents in which no request times out *)

\* The answer that is no timeout which the cursor `url` got in this run
HasAnswer(url) == \E i \in 1..Len(trace) : IsGet(i) /\ trace[i].url = url /\ trace[i].kind # "Timeout"
AnswerOf(url) ==
    trace[CHOOSE i \in 1..Len(trace) : IsGet(i) /\ trace[i].url = url /\ trace[i].kind # "Timeout"]

\* The loop of fetch_azure_vm_pricing from the cursor `url` with the records
\* `acc`, every request answered at once by AnswerOf: the records returned and
\* the cursors requested
RECURSIVE RunWithoutTimeouts(_, _, _)
RunWithoutTimeouts(url, acc, asked) ==
    IF ~(Truthy(url) /\ Len(acc) < limit) THEN [items |-> acc, asked |-> asked]
    ELSE IF ~HasAnswer(url) THEN [items |-> acc, asked |-> Append(asked, url)]
    ELSE LET ev == AnswerOf(url)
             r == ProcessPage(ev.data, acc, limit)
             next2 == Get(ev.data, "NextPageLink", NoneV)
         IN  IF ev.kind # "ok" \/ r.raised
             THEN [items |-> acc, asked |-> Append(asked, url)]
             ELSE RunWithoutTimeouts(next2, Extend(acc, r.filtered), Append(asked, url))

\* How often `url` occurs in the sequence of cursors `asked`
Count(asked, url) == Cardinality({i \in 1..Len(asked) : asked[i] = url})

\* The cursors requested in this run, in order
Asked == LET gets == SelectSeq(trace, LAMBDA ev : ev.op = "get")
         IN  [i \in 1..Len(gets) |-> gets[i].url]

TimeoutsAt(url) ==
    Cardinality({i \in 1..Len(trace) : IsGet(i) /\ trace[i].url = url /\ trace[i].kind = "Timeout"})

(* C4: a run in which cursors time out k times before they are answered      *)
(* returns the same sequence as the run over the same page contents without   *)
(* any timeout, and issues exactly k extra requests for each such cursor.     *)
C4_TimeoutsLeaveResultUnchanged ==
    pc = "azure_returned" =>
        LET ref == RunWithoutTimeouts(base_url, <<>>, <<>>) IN
        /\ all_items = ref.items
        /\ \A n \in 1..NumCursors :
             Count(Asked, Url(n)) = Count(ref.asked, Url(n)) + TimeoutsAt(Url(n))

\* A cursor timed out twice, was then answered, and its records are in the result
C4_Witness ==
    /\ pc = "azure_returned"
    /\ \E n \in 1..NumCursors :
         /\ TimeoutsAt(Url(n)) = 2
         /\ HasAnswer(Url(n))
         /\ PageDone(AnswerOf(Url(n)))
         /\ Len(Accepted(AnswerOf(Url(n)))) > 0
         /\ Count(Asked, Url(n)) = 3

------------------------------------------------------------------------------
(* What the history says about a run of fetch_aws_instances *)

InAws == pc \in {"aws_loop", "aws_returned"}

\* The records of a body: the elements of an array, the values of a keyed
\* object in key order, none for anything else
RecordsIn(data) ==
    IF data.t = "list" THEN data.elems
    ELSE IF data.t = "dict" THEN [i \in 1..Len(data.keys) |-> data.d[data.keys[i]]]
    ELSE <<>>

\* The response normalizes to a non-empty sequence
Wins(ev) == ev.kind = "ok" /\ Len(RecordsIn(ev.data)) > 0

\* The rows of df are the records, in order, each cell of a record kept
\* (the vendor column apart)
HoldsRecords(df, records) ==
    /\ Len(df.rows) = Len(records)
    /\ \A r \in 1..Len(records) :
         \A k \in DOMAIN records[r].d \ {"CPU Vendor"} :
            /\ k \in DOMAIN df.rows[r]
            /\ df.rows[r][k] = records[r].d[k]

(* C5: the fallback fetch requests the URLs in the given order, each at most *)
(* once; a URL whose response normalizes to a non-empty sequence is the last *)
(* one requested and its records are the result; after any other response    *)
(* (error status, network error, timeout, unparsable body, empty collection) *)
(* the loop moves on to the next URL.                                        *)
C5_FirstNonEmptyUrlWins ==
    InAws =>
        /\ Len(trace) <= Len(urls)
        /\ \A i \in 1..Len(trace) :
             /\ IsGet(i)
             /\ trace[i].url = urls[i]
             /\ Wins(trace[i]) =>
                  /\ i = Len(trace)
                  /\ pc = "aws_returned"
                  /\ HoldsRecords(aws_df, RecordsIn(trace[i].data))
             /\ ~Wins(trace[i]) => url_idx = i + 1 \/ i < Len(trace)

\* The first URL fails and the second wins
C5_Witness ==
    /\ pc = "aws_returned"
    /\ Len(trace) = 2
    /\ ~Wins(trace[1])
    /\ Wins(trace[2])
    /\ Len(aws_df.rows) = 2

\* The vendor category the claim C6 gives a record
VendorOfRecord(rec) ==
    IF "processor" \in DOMAIN rec.d THEN _extract_cpu_vendor(rec.d["processor"])
    ELSE IF "Processor" \in DOMAIN rec.d THEN _extract_cpu_vendor(rec.d["Processor"])
    ELSE Unknown

(* C6: in the result of the fallback fetch the vendor category of each       *)
(* record is the classifier applied to its "processor" field if it has one,  *)
(* else to its "Processor" field if it has one, else Unknown, also when the  *)
(* response mixes records of both spellings.                                 *)
C6_VendorPerRecord ==
    (pc = "aws_returned" /\ Len(trace) > 0 /\ Wins(trace[Len(trace)])) =>
        \A r \in 1..Len(aws_df.rows) :
            aws_df.rows[r]["CPU Vendor"] = VendorOfRecord(RecordsIn(trace[Len(trace)].data)[r])

(* C7: if every URL fails or yields empty data, whatever the kinds of        *)
(* failure, the fallback fetch returns an empty result after having          *)
(* requested every URL exactly once.                                         *)
C7_AllFailReturnsEmpty ==
    (pc = "aws_returned" /\ \A i \in 1..Len(trace) : ~Wins(trace[i])) =>
        /\ aws_df = EmptyFrame
        /\ Len(trace) = Len(urls)
        /\ \A i \in 1..Len(urls) : IsGet(i) /\ trace[i].url = urls[i]

\* A timeout and an empty collection exhaust the URLs
C7_Witness ==
    /\ pc = "aws_returned"
    /\ Len(trace) = Len(urls)
    /\ trace[1].kind = "Timeout"
    /\ trace[2].kind = "ok"
    /\ ~Wins(trace[2])
    /\ aws_df = EmptyFrame

------------------------------------------------------------------------------
(* C8: every record returned by the paginated fetch has a non-empty          *)
(* identifier that starts with an allowed prefix, and an item of a page      *)
(* handled to the end (the loop handles a page only while the limit is not   *)
(* reached) is in the result if and only if its identifier is such.          *)
C8_OnlyAllowedPrefixes ==
    InAzure =>
        /\ \A n \in 1..Len(all_items) : ValidId(all_items[n].VMName)
        /\ \A i \in 1..Len(trace) :
             (IsGet(i) /\ PageDone(trace[i])) =>
                \A k \in 1..Len(ItemsOf(trace[i].data)) :
                    LET sku == SkuOf(ItemsOf(trace[i].data)[k]) IN
                    (\E n \in 1..Len(all_items) : all_items[n].VMName = sku) <=> ValidId(sku)

\* The page D2s, X9, P gives the records D2s and P
C8_Witness ==
    /\ pc = "azure_returned"
    /\ Len(trace) = 1
    /\ PageDone(trace[1])
    /\ ItemsOf(trace[1].data) = <<ItemD2s, ItemX9, ItemP>>
    /\ Len(all_items) = 2
    /\ all_items[1].VMName = StrV(<<"D", "2", "s">>)
    /\ all_items[2].VMName = StrV(<<"P">>)

(* C9: the first request goes to the start URL, the request after a page     *)
(* handled to the end goes to that page's next-cursor value, and the result  *)
(* is the concatenation, in the order the pages were fetched, of each page's *)
(* accepted items in source order.                                           *)
C9_PagesInCursorOrder ==
    InAzure =>
        /\ Len(trace) > 0 => IsGet(1) /\ trace[1].url = base_url
        /\ \A i \in 1..Len(trace) :
             (IsGet(i) /\ PageDone(trace[i])) =>
                LET link == Get(trace[i].data, "NextPageLink", NoneV) IN
                /\ \A j \in (i + 1)..Len(trace) :
                     (IsGet(j) /\ \A m \in (i + 1)..(j - 1) : ~IsGet(m)) => trace[j].url = link
                /\ (pc = "azure_loop" /\ \A m \in (i + 1)..Len(trace) : ~IsGet(m)) => next_page = link
        /\ all_items = RecordsOfPages(Len(trace))

\* Two pages with accepted items, the first one linked to the last cursor
C9_Witness ==
    /\ pc = "azure_returned"
    /\ Len(trace) = 3
    /\ PageDone(trace[1])
    /\ Get(trace[1].data, "NextPageLink", NoneV) = Url(NumCursors)
    /\ trace[3].url = Url(NumCursors)
    /\ PageDone(trace[3])
    /\ Len(Accepted(trace[1])) > 0
    /\ Len(Accepted(trace[3])) > 0
    /\ Accepted(trace[1]) # Accepted(trace[3])

(* C10: no request is issued when the accumulated count has reached the      *)
(* limit or the cursor is absent: with limit 0 the fetch returns empty       *)
(* without a request, and the page that reaches the limit or carries no      *)
(* next-cursor is followed by no request.                                    *)
C10_NoRequestPastLimitOrEnd ==
    InAzure =>
        /\ \A i \in 1..Len(trace) :
             IsGet(i) =>
                /\ Truthy(trace[i].url)
                /\ Len(RecordsOfPages(i - 1)) < limit
        /\ limit = 0 => trace = <<>> /\ all_items = <<>>
        /\ \A i \in 1..Len(trace) :
             (/\ IsGet(i)
              /\ PageDone(trace[i])
              /\ \/ Len(RecordsOfPages(i)) >= limit
                 \/ ~Truthy(Get(trace[i].data, "NextPageLink", NoneV))) =>
                /\ i = Len(trace)
                /\ pc = "azure_returned"

\* A page reaches the limit and carries a next link, which is not followed
C10_Witness ==
    /\ pc = "azure_returned"
    /\ limit > 0
    /\ Len(trace) > 0
    /\ PageDone(trace[Len(trace)])
    /\ Truthy(Get(trace[Len(trace)].data, "NextPageLink", NoneV))
    /\ Len(all_items) >= limit

------------------------------------------------------------------------------
(* C11: for a non-empty list of records the fallback fetch gives the same    *)
(* result (records, order, vendor categories) when the winning body is the   *)
(* keyed object with these records as values as when it is the plain array.  *)
C11_KeyedObjectAsArray ==
    (/\ pc = "aws_returned"
     /\ Len(trace) > 0
     /\ Wins(trace[Len(trace)])
     /\ trace[Len(trace)].data.t = "dict") =>
        LET array == ListV(RecordsIn(trace[Len(trace)].data)) IN
        /\ HandleBody(array).do = "return"
        /\ aws_df = HandleBody(array).df

\* A keyed object of two different records wins
C11_Witness ==
    /\ pc = "aws_returned"
    /\ Len(trace) > 0
    /\ trace[Len(trace)].data.t = "dict"
    /\ Len(RecordsIn(trace[Len(trace)].data)) = 2
    /\ RecordsIn(trace[Len(trace)].data)[1] # RecordsIn(trace[Len(trace)].data)[2]
    /\ Len(aws_df.rows) = 2

------------------------------------------------------------------------------
\* txt holds the word whose letters are lo in lower and up in upper case, in any mix of cases
HasWord(txt, lo, up) ==
    \E i \in 1..(Len(txt) - Len(lo) + 1) :
        \A j \in 1..Len(lo) : txt[i + j - 1] \in {lo[j], up[j]}

HasAmd(txt) == HasWord(txt, <<"a", "m", "d">>, <<"A", "M", "D">>)
HasIntel(txt) == HasWord(txt, <<"i", "n", "t", "e", "l">>, <<"I", "N", "T", "E", "L">>)
HasArm(txt) ==
    \/ HasWord(txt, <<"a", "r", "m">>, <<"A", "R", "M">>)
    \/ HasWord(txt, <<"a", "m", "p", "e", "r", "e">>, <<"A", "M", "P", "E", "R", "E">>)

(* C12: the classifier returns a value for every input: AMD if the text       *)
(* holds "amd" in any letter case, else Intel if it holds "intel", else ARM   *)
(* if it holds "arm" or "ampere", else Unknown; a value that is no text is    *)
(* Unknown.                                                                   *)
C12_ClassifierPrecedence ==
    pc = "classified" =>
        LET txt == IF text.t = "str" THEN text.chars ELSE <<>> IN
        vendor = IF HasAmd(txt) THEN AMD
                 ELSE IF HasIntel(txt) THEN Intel
                 ELSE IF HasArm(txt) THEN ARM
                 ELSE Unknown

\* A text with "intel", "arm" and, in mixed case and last, "amd" is AMD
C12_Witness ==
    /\ pc = "classified"
    /\ text = StrV(<<"I", "N", "T", "E", "L", "a", "r", "m", "a", "M", "d">>)
    /\ vendor = AMD

------------------------------------------------------------------------------
Vendors == {AMD, Intel, ARM, Unknown}

\* The processor field the vendor column of the result is computed from
ProcessorOf(df, r) ==
    IF HasColumn(df, "processor") THEN df.rows[r]["processor"]
    ELSE IF HasColumn(df, "Processor") THEN df.rows[r]["Processor"]
    ELSE NoneV

(* C13: in every record of the paginated fetch and of the fallback fetch the  *)
(* vendor category is one of AMD, Intel, ARM, Unknown; it is Unknown when the *)
(* product name or the processor is absent or null; a vendor field the        *)
(* source records carry themselves does not come through.                     *)
C13_VendorInClosedSet ==
    /\ InAzure =>
         \A n \in 1..Len(all_items) :
            /\ all_items[n].CPUVendor \in Vendors
            /\ all_items[n].ProductName.t = "None" => all_items[n].CPUVendor = Unknown
    /\ pc = "aws_returned" =>
         \A r \in 1..Len(aws_df.rows) :
            /\ HasColumn(aws_df, "CPU Vendor")
            /\ aws_df.rows[r]["CPU Vendor"] \in Vendors
            /\ ProcessorOf(aws_df, r).t \in {"None", "nan"} =>
                  aws_df.rows[r]["CPU Vendor"] = Unknown

\* The fallback fetch returned a record that brought a vendor field of its own
C13_Witness ==
    /\ pc = "aws_returned"
    /\ Len(trace) > 0
    /\ Wins(trace[Len(trace)])
    /\ RecordsIn(trace[Len(trace)].data) = <<RecOwnVendor, RecNull>>
    /\ Len(aws_df.rows) = 2

------------------------------------------------------------------------------
\* Event i is a request answered by a page that is handled to the end, has a
\* next link and leaves the number of records below the limit
AnotherPageFollows(i) ==
    /\ IsGet(i)
    /\ PageDone(trace[i])
    /\ Truthy(Get(trace[i].data, "NextPageLink", NoneV))
    /\ Len(RecordsOfPages(i)) < limit

(* C16: the polite delay is taken exactly once after a page that is handled   *)
(* to the end, has a next cursor and leaves the count below the limit, and a  *)
(* request follows it; there is no delay after the last page, after the page  *)
(* that reaches the limit, before the first request, or after a timeout.      *)
C16_DelayOnlyBeforeNextPage ==
    InAzure =>
        \A i \in 1..Len(trace) :
            /\ AnotherPageFollows(i) => (i < Len(trace) /\ ~IsGet(i + 1))
            /\ ~IsGet(i) =>
                  /\ i > 1
                  /\ AnotherPageFollows(i - 1)
                  /\ i < Len(trace) => IsGet(i + 1)
                  /\ i = Len(trace) => pc = "azure_loop"

\* A page, the delay, a timeout, the same cursor again at once, the last page
C16_Witness ==
    /\ pc = "azure_returned"
    /\ Len(trace) = 4
    /\ PageDone(trace[1])
    /\ ~IsGet(2)
    /\ trace[3].kind = "Timeout"
    /\ PageDone(trace[4])
    /\ ~Truthy(Get(trace[4].data, "NextPageLink", NoneV))

------------------------------------------------------------------------------
\* The items with a valid identifier of the pages handled to the end among the
\* first n events, in order
RECURSIVE SourceItems(_)
SourceItems(n) ==
    IF n = 0 THEN <<>>
    ELSE SourceItems(n - 1)
         \o (IF IsGet(n) /\ PageDone(trace[n])
             THEN SelectSeq(ItemsOf(trace[n].data), LAMBDA it : ValidId(SkuOf(it)))
             ELSE <<>>)

(* C17: in every record of the paginated fetch the series is the first two    *)
(* characters of the identifier when it has at least two, the whole           *)
(* identifier when it is shorter, and the identifier and the raw SKU are both *)
(* the SKU of the source item.                                                *)
C17_SeriesAndIdentifier ==
    InAzure =>
        /\ Len(all_items) = Len(SourceItems(Len(trace)))
        /\ \A n \in 1..Len(all_items) :
              LET id == all_items[n].VMName.chars IN
              /\ all_items[n].VMName = SkuOf(SourceItems(Len(trace))[n])
              /\ all_items[n].ArmSKU = SkuOf(SourceItems(Len(trace))[n])
              /\ all_items[n].Series.t = "str"
              /\ Len(id) >= 2 => all_items[n].Series.chars = <<id[1], id[2]>>
              /\ Len(id) < 2 => all_items[n].Series.chars = id

\* The result holds a record with a long and one with a short identifier
C17_Witness ==
    /\ pc = "azure_returned"
    /\ \E m, n \in 1..Len(all_items) :
         /\ Len(all_items[m].VMName.chars) = 3
         /\ all_items[m].Series.chars = <<"D", "2">>
         /\ Len(all_items[n].VMName.chars) = 1
         /\ all_items[n].Series.chars = <<"P">>

------------------------------------------------------------------------------
\* What the while loop has ended by
LoopEndReason ==
    \/ ~Truthy(next_page)
    \/ Len(all_items) >= limit
    \/ Len(trace) > 0 /\ FailedGet(trace[Len(trace)])

(* C14: the pagination loop ends only with the cursor null or absent, the    *)
(* count at the limit or more, or an error that is no timeout just raised;   *)
(* and, the chain of next cursors being finite and every request getting an  *)
(* answer that is no timeout at last, every run of the paginated fetch       *)
(* returns.                                                                  *)
C14_LoopEnds ==
    /\ [](pc = "azure_returned" => LoopEndReason)
    /\ (pc = "azure_loop") ~> (pc = "azure_returned")

\* The fetch returned at the end of the chain after two timeouts, below the limit
C14_Witness ==
    /\ pc = "azure_returned"
    /\ NumTimeouts >= 2
    /\ ~Truthy(next_page)
    /\ Len(all_items) < limit
    /\ \E i \in 1..Len(trace) : IsGet(i) /\ PageDone(trace[i]) /\ trace[i].url # base_url

------------------------------------------------------------------------------
\* In a run of main: the paginated fetch is under way or has just returned
MainInAzure == pc \in {"azure_loop", "azure_retry", "azure_returned"}

\* The last request of the paginated fetch failed (timeout, HTTP or network
\* error, malformed body)
AzureFailed ==
    /\ MainInAzure
    /\ Len(trace) > 0
    /\ trace[Len(trace)].kind = "Timeout" \/ FailedGet(trace[Len(trace)])

\* The last request of the fallback fetch failed or gave no data
AwsFailed ==
    /\ InAws
    /\ Len(trace) > 0
    /\ ~Wins(trace[Len(trace)])

AwsStarted == pc \in {"aws_loop", "aws_returned", "coremark_created", "saved_xlsx", "saved_csv"}

Exported == pc \in {"saved_xlsx", "saved_csv"}

(* C15: in a run of main no failure in one fetcher aborts the other steps:    *)
(* after every failure of the paginated fetch (HTTP error, network error,     *)
(* timeout, malformed body) the fallback fetch is started at last; after      *)
(* every failure of the fallback fetch the static dataset and the export are  *)
(* reached at last; and a fetcher leaves the records of the other as they are. *)
C15_FailuresDoNotAbort ==
    /\ AzureFailed ~> AwsStarted
    /\ AwsFailed ~> Exported
    /\ [][(MainInAzure => aws_df' = aws_df) /\ (~MainInAzure => all_items' = all_items)]_vars

====
